---- MODULE Spec2Model ----
(***************************************************************************)
(* The game server of chess-platform (src/client/src/socket.js, lines      *)
(* 35-403): the socket.io handlers of io.on('connection'), the session     *)
(* store `games`, the `matchmakingQueue` and the per-connection            *)
(* `gameTimeouts` maps with their setTimeout timers.                       *)
(*                                                                         *)
(* Time is counted in ticks.  Date.now() is the variable `now`; a minute   *)
(* of time control is MinuteTicks ticks (60 * 1000 ms in the code), the    *)
(* latency buffer of setGameTimeout is GraceTicks ticks (1000 ms in the    *)
(* code) and the default time control is DefaultMinutes minutes (10 in     *)
(* the code).  A null lastMoveTime is 0: the code only tests it for        *)
(* truthiness, and Date.now() is never 0 (now starts at 1).                *)
(*                                                                         *)
(* The rules oracle (moveValidator.mjs, chessUtils.js) is not part of the  *)
(* sources; its answers are inputs of the move action.                     *)
(***************************************************************************)
EXTENDS Integers, Sequences, FiniteSets, TLC

\* ------------------------------------------------------------------ bounds
MaxNow == 4
MinuteTicks == 1
GraceTicks == 1
DefaultMinutes == 2

\* ------------------------------------------------------------ connections
\* socket ids; "u" carries no token, so io.use leaves socket.data.user unset
Conns == {"a", "b", "u"}
Authenticated == {"a", "b"}
Null == "null"

user(c) == IF c \in Authenticated THEN c ELSE Null

\* the gameIds crypto.randomUUID() yields, in the order it yields them;
\* games are played (GAME_MOVE) in the first only
GameIds == {1, 2}
PlayIds == {1}

opp(color) == IF color = "white" THEN "black" ELSE "white"

\* ------------------------------------------------------------------ board
initialBoard ==
  [r \in 0..7 |->
     CASE r = 0 -> [c \in 0..7 |-> <<"r","n","b","q","k","b","n","r">>[c + 1]]
       [] r = 1 -> [c \in 0..7 |-> "p"]
       [] r = 6 -> [c \in 0..7 |-> "P"]
       [] r = 7 -> [c \in 0..7 |-> <<"R","N","B","Q","K","B","N","R">>[c + 1]]
       [] OTHER -> [c \in 0..7 |-> ""]]

WhitePieces == {"P", "R", "N", "B", "Q", "K"}
BlackPieces == {"p", "r", "n", "b", "q", "k"}

\* the GAME_MOVE payloads {from, to} the model submits: white's king's knight
\* leaving home and returning, black's leaving (up to three plies a game)
MoveInputs ==
  { <<<<7, 6>>, <<5, 5>>>>, <<<<5, 5>>, <<7, 6>>>>,
    <<<<0, 6>>, <<2, 5>>>> }

\* the answers of the oracle for one GAME_MOVE:
\*   ok      isValidMove_c on the current board
\*   self    isKingInCheck(temp, turn, ...): the mover's king is attacked after
\*   check   isKingInCheck(board, next turn, ...) after the move
\*   stuck   the next side has no legal move (getGameStatus)
\* (rejected; self-check; accepted: quiet, check, checkmate, stalemate)
OracleAnswers ==
  { [ok |-> FALSE, self |-> FALSE, check |-> FALSE, stuck |-> FALSE],
    [ok |-> TRUE, self |-> TRUE, check |-> FALSE, stuck |-> FALSE],
    [ok |-> TRUE, self |-> FALSE, check |-> FALSE, stuck |-> FALSE],
    [ok |-> TRUE, self |-> FALSE, check |-> TRUE, stuck |-> FALSE],
    [ok |-> TRUE, self |-> FALSE, check |-> TRUE, stuck |-> TRUE],
    [ok |-> TRUE, self |-> FALSE, check |-> FALSE, stuck |-> TRUE] }

\* the wasm validator accepts a move only of a piece of the side to move
isValidMove_c(board, from, isWhite, answer) ==
  /\ answer.ok
  /\ board[from[1]][from[2]] \in (IF isWhite THEN WhitePieces ELSE BlackPieces)

isValidMoveWasm_NoSelfCheck(board, from, turn, answer) ==
  isValidMove_c(board, from, turn = "white", answer)

isValidMoveWasm(board, from, turn, answer) ==
  LET ok == isValidMove_c(board, from, turn = "white", answer)
      leavesKingInCheck == answer.self
  IN  ok /\ ~leavesKingInCheck

isKingInCheck(answer) == answer.check

\* "no status" is the record of two nulls
getGameStatus(turn, answer) ==
  IF ~answer.stuck THEN [winner |-> Null, reason |-> Null]
  ELSE IF answer.check THEN [winner |-> opp(turn), reason |-> "Checkmate"]
  ELSE [winner |-> "draw", reason |-> "Stalemate"]

\* ------------------------------------------------------------------ state
VARIABLES
  now,              \* Date.now()
  games,            \* the Map games: gameId -> game
  nextId,           \* how many gameIds crypto.randomUUID() has produced
  matchmakingQueue, \* the array matchmakingQueue, of sockets
  gameTimeouts,     \* per connection, the Map gameTimeouts: gameId -> timer
  pending,          \* the timers setTimeout holds: armed, not fired or cleared
  connected,        \* the sockets that have not disconnected
  fault,            \* an exception escaped a handler
  overs,            \* history: per gameId, the GAME_OVER statuses emitted
  out,              \* history: what the last handler emitted, in order
  latest,           \* history: per gameId, the last Arm or Cancel of its timer
  lastEvent,        \* history: per gameId, when its last clock event happened
  charged           \* history: per gameId and side, the elapsed time of its turns

vars == <<now, games, nextId, matchmakingQueue, gameTimeouts, pending,
          connected, fault, overs, out, latest, lastEvent, charged>>

\* ---------------------------------------------------------------- helpers
Remove(f, k) == [x \in DOMAIN f \ {k} |-> f[x]]
Put(f, k, v) == [x \in DOMAIN f \cup {k} |-> IF x = k THEN v ELSE f[x]]

\* socket.emit(ev, p) and io.to(ROOMS.game(g)).emit(ev, p)
toSocket(c, ev, p) == [sock |-> c, room |-> 0, ev |-> ev, p |-> p]
toRoom(g, ev, p) == [sock |-> "", room |-> g, ev |-> ev, p |-> p]

\* What a handler works on: the two global registries, the timers, what has
\* been emitted, and whether an exception has escaped.  `owner` of a timer is the connection whose closure
\* (its own gameTimeouts map) holds it.
Heap ==
  [games |-> games, gameTimeouts |-> gameTimeouts, pending |-> pending,
   overs |-> overs, out |-> <<>>, latest |-> latest, fault |-> fault]

emit(H, e) == [H EXCEPT !.out = Append(@, e)]

emitGameOver(H, g, status) ==
  [emit(H, toRoom(g, "GAME_OVER", status)) EXCEPT !.overs[g] = Append(@, status)]

Timer_OtherSide(c, g, color, deadline) ==
  [owner |-> c, gameId |-> g,
   color |-> IF color = "white" THEN "black" ELSE "white", deadline |-> deadline]

Timer(c, g, color, deadline) ==
  [owner |-> c, gameId |-> g, color |-> color, deadline |-> deadline]

\* --------------------------------------------------- Active Timeout Logic
clearGameTimeout(H, c, g) ==
  IF g \in DOMAIN H.gameTimeouts[c]
  THEN [H EXCEPT !.pending = @ \ {H.gameTimeouts[c][g]},
                 !.gameTimeouts[c] = Remove(@, g),
                 !.latest[g] = {}]
  ELSE [H EXCEPT !.latest[g] = {}]

finalizeTimeout_NoEvict(H, c, g, loserColor) ==
  LET winner == IF loserColor = "white" THEN "black" ELSE "white"
      status == [winner |-> winner, reason |-> "Timeout"]
      H1 == emitGameOver(H, g, status)
  IN  [H1 EXCEPT !.gameTimeouts[c] = Remove(@, g)]

finalizeTimeout(H, c, g, loserColor) ==
  LET winner == IF loserColor = "white" THEN "black" ELSE "white"
      status == [winner |-> winner, reason |-> "Timeout"]
      H1 == emitGameOver(H, g, status)
  IN  [H1 EXCEPT !.games = Remove(@, g),
                 !.gameTimeouts[c] = Remove(@, g)]

handleTimeout_NoGuard(H, c, g, loserColor) ==
  finalizeTimeout(H, c, g, loserColor)

handleTimeout(H, c, g, loserColor) ==
  IF g \notin DOMAIN H.games THEN H
  ELSE finalizeTimeout(H, c, g, loserColor)

setGameTimeout(H, c, g, duration, color) ==
  LET H1 == clearGameTimeout(H, c, g)
      timeoutId == Timer(c, g, color, now + duration + GraceTicks)
  IN  IF duration <= 0 THEN handleTimeout(H1, c, g, color)
      ELSE [H1 EXCEPT !.pending = @ \cup {timeoutId},
                      !.gameTimeouts[c] = Put(@, g, timeoutId),
                      !.latest[g] = {timeoutId}]

\* the handler's result becomes the next state
Commit(H) ==
  /\ games' = H.games
  /\ gameTimeouts' = H.gameTimeouts
  /\ pending' = H.pending
  /\ overs' = H.overs
  /\ out' = H.out
  /\ latest' = H.latest
  /\ fault' = H.fault

\* ------------------------------------------------------------ GAME_CREATE
\* payload.timeControl as the client may send it
TimeControlPayloads ==
  { [type |-> "undefined", num |-> 0, str |-> ""],
    [type |-> "number", num |-> 0, str |-> ""],
    [type |-> "number", num |-> 1, str |-> ""],
    [type |-> "number", num |-> -1, str |-> ""],
    [type |-> "string", num |-> 0, str |-> "0"],
    [type |-> "string", num |-> 0, str |-> "abc"] }

truthy(v) ==
  CASE v.type = "undefined" -> FALSE
    [] v.type = "number" -> v.num # 0
    [] OTHER -> v.str # ""

\* parseInt(v, 10): the integer, or NaN
parseInt(v) ==
  CASE v.type = "number" -> [nan |-> FALSE, val |-> v.num]
    [] v.str = "0" -> [nan |-> FALSE, val |-> 0]
    [] v.str = "1" -> [nan |-> FALSE, val |-> 1]
    [] OTHER -> [nan |-> TRUE, val |-> 0]

timeMinutesOf(payload) ==
  IF truthy(payload)
  THEN IF parseInt(payload).nan THEN DefaultMinutes ELSE parseInt(payload).val
  ELSE DefaultMinutes

NewGame(white, black, timeMs) ==
  [board |-> initialBoard, turn |-> "white", white |-> white, black |-> black,
   check |-> Null, timeControl |-> timeMs, whiteTime |-> timeMs,
   blackTime |-> timeMs, lastMoveTime |-> 0]

AuthError(c) ==
  emit(Heap, toSocket(c, "GAME_ERROR", [message |-> "Authentication required."]))

GameCreate(c, payload, ids) ==
  /\ ~fault /\ connected[c]
  /\ IF user(c) = Null
     THEN Commit(AuthError(c)) /\ UNCHANGED nextId
     ELSE /\ nextId + 1 \in ids
          /\ LET gameId == nextId + 1
                 timeMs == timeMinutesOf(payload) * MinuteTicks
                 H1 == [Heap EXCEPT !.games = Put(@, gameId, NewGame(c, Null, timeMs))]
             IN  Commit(emit(H1, toSocket(c, "GAME_CREATED",
                        [gameId |-> gameId, whiteTime |-> timeMs, blackTime |-> timeMs])))
          /\ nextId' = nextId + 1
  /\ UNCHANGED <<now, matchmakingQueue, connected, lastEvent, charged>>

\* -------------------------------------------------------------- GAME_FIND
joinedPayload(gameId, color, game) ==
  [gameId |-> gameId, color |-> color, board |-> game.board,
   whiteTime |-> game.whiteTime, blackTime |-> game.blackTime]

statePayload(game) ==
  [board |-> game.board, turn |-> game.turn, check |-> game.check,
   whiteTime |-> game.whiteTime, blackTime |-> game.blackTime,
   lastMoveTime |-> game.lastMoveTime]

\* the pairing of lines 214-257; coin is Math.random() < 0.5
pairPlayers(H, c, player1Socket, player2Socket, coin) ==
  LET gameId == nextId + 1
      white == IF coin THEN player1Socket ELSE player2Socket
      black == IF coin THEN player2Socket ELSE player1Socket
      g0 == NewGame(white, black, DefaultMinutes * MinuteTicks)
      H1 == [H EXCEPT !.games = Put(@, gameId, g0)]
      H2 == emit(H1, toSocket(player1Socket, "GAME_JOINED",
                 joinedPayload(gameId, IF white = player1Socket THEN "white" ELSE "black", g0)))
      H3 == emit(H2, toSocket(player2Socket, "GAME_JOINED",
                 joinedPayload(gameId, IF white = player2Socket THEN "white" ELSE "black", g0)))
      H4 == emit(H3, toRoom(gameId, "GAME_STATE", statePayload(g0)))
      g == [g0 EXCEPT !.lastMoveTime = now]
      H5 == [H4 EXCEPT !.games[gameId] = g]
  IN  setGameTimeout(H5, c, gameId, g.whiteTime, "white")

GameFind(c, coin, ids) ==
  /\ ~fault /\ connected[c]
  /\ IF user(c) = Null
     THEN Commit(AuthError(c)) /\ UNCHANGED <<nextId, matchmakingQueue, lastEvent>>
     ELSE LET q == Append(matchmakingQueue, c)
              H1 == emit(Heap, toSocket(c, "GAME_FINDING", [gameId |-> 0]))
          IN  IF Len(q) >= 2
              THEN /\ nextId + 1 \in ids
                   /\ Commit(pairPlayers(H1, c, q[1], q[2], coin))
                   /\ matchmakingQueue' = SubSeq(q, 3, Len(q))
                   /\ nextId' = nextId + 1
                   /\ lastEvent' = [lastEvent EXCEPT ![nextId + 1] = now]
              ELSE /\ coin
                   /\ Commit(H1)
                   /\ matchmakingQueue' = q
                   /\ UNCHANGED <<nextId, lastEvent>>
  /\ UNCHANGED <<now, connected, charged>>

\* ------------------------------------------------------- GAME_FIND_CANCEL
\* (registered by GAME_FIND; before that the connection is not in the queue)
removeFirst_Head(q, c) == IF q = << >> THEN q ELSE Tail(q)

removeFirst(q, c) ==
  IF \E i \in 1..Len(q) : q[i] = c
  THEN LET index == CHOOSE i \in 1..Len(q) : q[i] = c /\ \A j \in 1..(i - 1) : q[j] # c
       IN  SubSeq(q, 1, index - 1) \o SubSeq(q, index + 1, Len(q))
  ELSE q

GameFindCancel(c) ==
  /\ ~fault /\ connected[c]
  /\ matchmakingQueue' = removeFirst(matchmakingQueue, c)
  /\ Commit(Heap)
  /\ UNCHANGED <<now, nextId, connected, lastEvent, charged>>

\* -------------------------------------------------------------- GAME_JOIN
gameError_ClearsTimers(c, message) ==
  emit([Heap EXCEPT !.pending = {}],
       toSocket(c, "GAME_ERROR", [message |-> message]))

gameError(c, message) ==
  emit(Heap, toSocket(c, "GAME_ERROR", [message |-> message]))

joinGame(H, c, gameId) ==
  LET g1 == [H.games[gameId] EXCEPT !.black = c]
      H1 == emit([H EXCEPT !.games[gameId] = g1],
                 toSocket(c, "GAME_JOINED", joinedPayload(gameId, "black", g1)))
      H2 == emit(H1, toRoom(gameId, "GAME_STATE", statePayload(g1)))
      g2 == [g1 EXCEPT !.lastMoveTime = now]
      H3 == [H2 EXCEPT !.games[gameId] = g2]
  IN  setGameTimeout(H3, c, gameId, g2.whiteTime, "white")

GameJoin(c, gameId) ==
  /\ ~fault /\ connected[c]
  /\ IF user(c) = Null
       THEN Commit(AuthError(c)) /\ UNCHANGED lastEvent
     ELSE IF gameId \notin DOMAIN games
       THEN Commit(gameError(c, "Game not found.")) /\ UNCHANGED lastEvent
     ELSE IF games[gameId].black # Null
       THEN Commit(gameError(c, "Game is full.")) /\ UNCHANGED lastEvent
     ELSE IF games[gameId].white = c
       THEN Commit(gameError(c, "You have already joined.")) /\ UNCHANGED lastEvent
     ELSE /\ Commit(joinGame(Heap, c, gameId))
          /\ lastEvent' = [lastEvent EXCEPT ![gameId] = now]
  /\ UNCHANGED <<now, nextId, matchmakingQueue, connected, charged>>

\* -------------------------------------------------------------- GAME_MOVE
\* the object `game` stays in the handler's hands after games.delete; only
\* while it is in the Map can a later handler see what is written to it
store(H, gameId, game) ==
  IF gameId \in DOMAIN H.games THEN [H EXCEPT !.games[gameId] = game] ELSE H

chargeElapsed_Opponent(game, turn) ==
  IF game.lastMoveTime # 0
  THEN LET elapsed == now - game.lastMoveTime
       IN  IF turn = "white" THEN [game EXCEPT !.blackTime = @ - elapsed]
           ELSE [game EXCEPT !.whiteTime = @ - elapsed]
  ELSE game

chargeElapsed_None(game, turn) == game

chargeElapsed(game, turn) ==
  IF game.lastMoveTime # 0
  THEN LET elapsed == now - game.lastMoveTime
       IN  IF turn = "white" THEN [game EXCEPT !.whiteTime = @ - elapsed]
           ELSE [game EXCEPT !.blackTime = @ - elapsed]
  ELSE game

relocate(board, from, to) ==
  LET piece == board[from[1]][from[2]]
      b1 == [board EXCEPT ![to[1]][to[2]] = piece]
  IN  [b1 EXCEPT ![from[1]][from[2]] = ""]

\* lines 299-349: the move has passed isValidMoveWasm
validMove(H, c, gameId, from, to, answer) ==
  LET game == H.games[gameId]
      turn == game.turn
      g1 == chargeElapsed(game, turn)
      H1 == [H EXCEPT !.games[gameId] = g1]
  IN  IF g1.whiteTime <= 0 \/ g1.blackTime <= 0
      THEN LET H2 == clearGameTimeout(H1, c, gameId)
               winner == IF g1.whiteTime <= 0 THEN "black" ELSE "white"
               status == [winner |-> winner, reason |-> "Timeout"]
           IN  [emitGameOver(H2, gameId, status) EXCEPT !.games = Remove(@, gameId)]
      ELSE LET g2 == [g1 EXCEPT !.lastMoveTime = now]
               nextColor == IF g2.turn = "white" THEN "black" ELSE "white"
               nextTime == IF nextColor = "white" THEN g2.whiteTime ELSE g2.blackTime
               H3 == setGameTimeout([H1 EXCEPT !.games[gameId] = g2],
                                    c, gameId, nextTime, nextColor)
               newTurn == IF turn = "white" THEN "black" ELSE "white"
               inCheck == isKingInCheck(answer)
               g3 == [g2 EXCEPT !.board = relocate(@, from, to),
                                !.turn = newTurn,
                                !.check = IF inCheck THEN newTurn ELSE Null]
               H4 == emit(store(H3, gameId, g3),
                          toRoom(gameId, "GAME_STATE", statePayload(g3)))
               status == getGameStatus(g3.turn, answer)
           IN  IF status.reason # Null
               THEN [emitGameOver(H4, gameId, status)
                       EXCEPT !.games = Remove(@, gameId)]
               ELSE H4

\* the socket id the turn check of line 295 compares with; reading .id of
\* players.black while it is null throws a TypeError
playerSocketId(game) ==
  IF game.turn = "white" THEN game.white ELSE game.black

moveHandler(H, c, gameId, from, to, answer) ==
  IF gameId \notin DOMAIN H.games THEN H
  ELSE IF playerSocketId(H.games[gameId]) = Null THEN [H EXCEPT !.fault = TRUE]
  ELSE IF c # playerSocketId(H.games[gameId])
    THEN emit(H, toSocket(c, "GAME_ERROR", [message |-> "It's not your turn."]))
  ELSE IF isValidMoveWasm(H.games[gameId].board, from, H.games[gameId].turn, answer)
    THEN validMove(H, c, gameId, from, to, answer)
  ELSE emit(H, toSocket(c, "GAME_ERROR", [message |-> "Invalid move."]))

\* the handler has applied the move: it has broadcast the new GAME_STATE
applied(H) == Len(H.out) > 0 /\ H.out[1].ev = "GAME_STATE"

GameMove(c, gameId, from, to, answer) ==
  /\ ~fault /\ connected[c]
  /\ LET H == moveHandler(Heap, c, gameId, from, to, answer)
         elapsed == IF lastEvent[gameId] # 0 THEN now - lastEvent[gameId] ELSE 0
     IN  /\ Commit(H)
         /\ lastEvent' = IF applied(H) THEN [lastEvent EXCEPT ![gameId] = now]
                         ELSE lastEvent
         /\ charged' = IF applied(H)
                       THEN [charged EXCEPT ![gameId][games[gameId].turn] = @ + elapsed]
                       ELSE charged
  /\ UNCHANGED <<now, nextId, matchmakingQueue, connected>>

\* ------------------------------------------------------------- disconnect
disconnectWinner_Self(game, c) ==
  IF game.white # Null /\ game.white = c THEN "white" ELSE "black"

disconnectWinner(game, c) ==
  IF game.white # Null /\ game.white = c THEN "black" ELSE "white"

\* games.entries() iterates in insertion order, which is the order of gameIds
firstGameOf(gs, c) ==
  LET mine == {g \in DOMAIN gs :
                 \/ gs[g].white # Null /\ gs[g].white = c
                 \/ gs[g].black # Null /\ gs[g].black = c}
  IN  IF mine = {} THEN 0 ELSE CHOOSE g \in mine : \A h \in mine : g <= h

forfeit(H, c) ==
  LET gameId == firstGameOf(H.games, c)
  IN  IF gameId = 0 THEN H
      ELSE LET H1 == clearGameTimeout(H, c, gameId)
               status == [winner |-> disconnectWinner(H.games[gameId], c),
                          reason |-> "Opponent disconnected."]
           IN  [emitGameOver(H1, gameId, status) EXCEPT !.games = Remove(@, gameId)]

Disconnect(c) ==
  /\ ~fault /\ connected[c]
  /\ connected' = [connected EXCEPT ![c] = FALSE]
  /\ matchmakingQueue' = removeFirst(matchmakingQueue, c)
  /\ Commit(forfeit(Heap, c))
  /\ UNCHANGED <<now, nextId, lastEvent, charged>>

\* ------------------------------------------------------------ the timers
\* the callback of setTimeout runs, not before its delay has passed
TimerFire(t) ==
  /\ ~fault
  /\ t \in pending
  /\ now >= t.deadline
  /\ Commit(handleTimeout([Heap EXCEPT !.pending = @ \ {t}],
                          t.owner, t.gameId, t.color))
  /\ UNCHANGED <<now, nextId, matchmakingQueue, connected, lastEvent, charged>>

Tick ==
  /\ ~fault
  /\ now < MaxNow
  /\ now' = now + 1
  /\ out' = <<>>
  /\ UNCHANGED <<games, nextId, matchmakingQueue, gameTimeouts, pending,
                 connected, fault, overs, latest, lastEvent, charged>>

\* ---------------------------------------------------------- specification
Init ==
  /\ now = 1
  /\ games = << >>
  /\ nextId = 0
  /\ matchmakingQueue = << >>
  /\ gameTimeouts = [c \in Conns |-> << >>]
  /\ pending = {}
  /\ connected = [c \in Conns |-> TRUE]
  /\ fault = FALSE
  /\ overs = [g \in GameIds |-> << >>]
  /\ out = << >>
  /\ latest = [g \in GameIds |-> {}]
  /\ lastEvent = [g \in GameIds |-> 0]
  /\ charged = [g \in GameIds |-> [white |-> 0, black |-> 0]]

\* every handler but GAME_MOVE, with the gameIds `ids` to hand out
Lobby(ids) ==
  \/ \E c \in Conns, payload \in TimeControlPayloads : GameCreate(c, payload, ids)
  \/ \E c \in Conns, coin \in BOOLEAN : GameFind(c, coin, ids)
  \/ \E c \in Conns : GameFindCancel(c)
  \/ \E c \in Conns, gameId \in GameIds : GameJoin(c, gameId)
  \/ \E c \in Conns : Disconnect(c)
  \/ \E t \in pending : TimerFire(t)
  \/ Tick

\* the handler reads the move and asks the oracle only once the turn check
\* of line 296 has passed: before that, one move and one answer stand for all
readsMove(c, gameId) ==
  gameId \in DOMAIN games /\ c = playerSocketId(games[gameId])

Moves ==
  \E c \in Conns, gameId \in PlayIds :
    \E mv \in (IF readsMove(c, gameId) THEN MoveInputs
                ELSE {CHOOSE m \in MoveInputs : TRUE}),
       answer \in (IF readsMove(c, gameId) THEN OracleAnswers
                   ELSE {CHOOSE a \in OracleAnswers : TRUE}) :
      GameMove(c, gameId, mv[1], mv[2], answer)

\* one session, played
Next == Lobby(PlayIds) \/ Moves

Spec == Init /\ [][Next]_vars

\* several sessions, none played
NextLobby == Lobby(GameIds)

SpecLobby == Init /\ [][NextLobby]_vars

\* ================================================================== claims
Sides == {"white", "black"}

timeOf(game, side) == IF side = "white" THEN game.whiteTime ELSE game.blackTime

\* the time gone by since the session's last event timestamp
elapsedOf(game) == IF game.lastMoveTime # 0 THEN now - game.lastMoveTime ELSE 0

lastOver(g) == overs'[g][Len(overs'[g])]

\* this step emits a GAME_OVER for session g
Finalizes(g) == overs'[g] # overs[g]

\* ------------------------------------------------------------------- C1
\* C1: at most one GAME_OVER is ever emitted for a session identifier,
\* whatever the interleaving of moves, timer firings, disconnects and joins.
C1_AtMostOneGameOver == \A g \in GameIds : Len(overs[g]) <= 1

\* a session has been finalized while a timer armed for it is still to fire
C1_Witness ==
  \E g \in GameIds :
    /\ Len(overs[g]) = 1
    /\ g \notin DOMAIN games
    /\ \E t \in pending : t.gameId = g /\ now >= t.deadline

\* ------------------------------------------------------------------- C2
\* C2: every GAME_OVER with reason Timeout names as loser the side to move,
\* and that side's budget minus the time elapsed since the last event is at
\* or below zero (so a side whose clock is not running and has time left is
\* never the loser on time).
C2_TimeoutLoserIsExhausted ==
  [][\A g \in DOMAIN games :
       (Finalizes(g) /\ lastOver(g).reason = "Timeout") =>
         LET loser == opp(lastOver(g).winner)
         IN  /\ games[g].turn = loser
             /\ timeOf(games[g], loser) - elapsedOf(games[g]) <= 0]_vars

\* ------------------------------------------------------------------- C3
\* C3: a timer that has been superseded (a later Arm or Cancel for the same
\* session happened, in whichever connection) never finalizes the session
\* when it fires.
C3_SupersededTimerIsNoOp ==
  [][\A t \in pending :
       (TimerFire(t) /\ latest[t.gameId] # {t}) => ~Finalizes(t.gameId)]_vars

\* ------------------------------------------------------------------- C4
\* C4: at most one outstanding deadline timer per session identifier,
\* counted across all connections.
C4_OneTimerPerSession ==
  \A g \in GameIds : Cardinality({t \in pending : t.gameId = g}) <= 1

\* ------------------------------------------------------------------- C5
\* C5: when a session with both sides present is ended by its deadline
\* timer, the side to move having submitted no move, the GAME_OVER has
\* reason Timeout and names the other side as winner, and the session
\* leaves the store.
C5_NoMoveTimeoutNamesOpponent ==
  [][\A t \in pending :
       (/\ TimerFire(t)
        /\ t.gameId \in DOMAIN games
        /\ games[t.gameId].black # Null) =>
         /\ Finalizes(t.gameId)
         /\ lastOver(t.gameId) =
              [winner |-> opp(games[t.gameId].turn), reason |-> "Timeout"]
         /\ t.gameId \notin DOMAIN games']_vars

\* ------------------------------------------------------------------- C6
\* connection c may send an event now
Live(c) == connected[c] /\ ~fault

\* the participant of the side to move
toMove(game) == IF game.turn = "white" THEN game.white ELSE game.black

notYourTurn(c) == <<toSocket(c, "GAME_ERROR", [message |-> "It's not your turn."])>>

invalidMove(c) == <<toSocket(c, "GAME_ERROR", [message |-> "Invalid move."])>>

\* the handler's result H leaves the sessions, timers and results as they are
Untouched(H) ==
  /\ H.games = games
  /\ H.pending = pending
  /\ H.gameTimeouts = gameTimeouts
  /\ H.overs = overs
  /\ ~H.fault

\* C6: whatever move is submitted for an existing session by anyone who is
\* not the participant of the side to move (also when that side has no
\* participant yet), the handler answers "It's not your turn." to the
\* submitter and leaves board, turn, budgets, timestamp and timers alone.
C6_OutOfTurnIsTurnViolation ==
  \A c \in Conns, g \in PlayIds \cap DOMAIN games :
    (Live(c) /\ toMove(games[g]) # c) =>
      \A mv \in MoveInputs, answer \in OracleAnswers :
        LET H == moveHandler(Heap, c, g, mv[1], mv[2], answer)
        IN  H.out = notYourTurn(c) /\ Untouched(H)

\* ------------------------------------------------------------------- C7
\* C7: a move by the side to move that the oracle rejects, or accepts but
\* that leaves the mover's own king attacked, is answered "Invalid move." to
\* the mover only and changes nothing of the session, its clocks or timers.
C7_IllegalMoveChangesNothing ==
  \A c \in Conns, g \in PlayIds \cap DOMAIN games :
    (Live(c) /\ toMove(games[g]) = c) =>
      \A mv \in MoveInputs, answer \in OracleAnswers :
        (\/ ~isValidMove_c(games[g].board, mv[1], games[g].turn = "white", answer)
         \/ answer.self) =>
          LET H == moveHandler(Heap, c, g, mv[1], mv[2], answer)
          IN  H.out = invalidMove(c) /\ Untouched(H)

\* the mover of a session with both sides present has been told "Invalid move."
C7_Witness ==
  \E g \in DOMAIN games :
    /\ games[g].black # Null
    /\ charged[g].white > 0
    /\ out = invalidMove(toMove(games[g]))

\* ------------------------------------------------------------------- C8
\* the move mv of the side to move passes the oracle and the timeout check
Acceptable(g, mv, answer) ==
  /\ isValidMove_c(games[g].board, mv[1], games[g].turn = "white", answer)
  /\ ~answer.self
  /\ timeOf(games[g], games[g].turn) - elapsedOf(games[g]) > 0
  /\ timeOf(games[g], opp(games[g].turn)) > 0

\* C8: the side to move flips on every accepted move and on nothing else;
\* an accepted move charges the time since the last event to the mover and
\* leaves the opponent's budget alone; so what a side has consumed of its
\* time control is the sum of the elapsed intervals of its own turns.
C8_AlternationAndCharges ==
  /\ [](\A g \in DOMAIN games, side \in Sides :
          games[g].timeControl - timeOf(games[g], side) = charged[g][side])
  /\ [](\A g \in PlayIds \cap DOMAIN games :
          (toMove(games[g]) # Null /\ Live(toMove(games[g]))) =>
            \A mv \in MoveInputs, answer \in OracleAnswers :
              Acceptable(g, mv, answer) =>
                LET H == moveHandler(Heap, toMove(games[g]), g, mv[1], mv[2], answer)
                    mover == games[g].turn
                    after == H.games[g]
                IN  /\ applied(H)
                    /\ H.out[1].p.turn = opp(mover)
                    /\ answer.stuck <=> g \notin DOMAIN H.games
                    /\ ~answer.stuck =>
                         /\ after.turn = opp(mover)
                         /\ timeOf(after, mover) =
                              timeOf(games[g], mover) - elapsedOf(games[g])
                         /\ timeOf(after, opp(mover)) = timeOf(games[g], opp(mover)))
  /\ [][\A g \in DOMAIN games \cap DOMAIN games' :
          (\/ games'[g].turn # games[g].turn
           \/ games'[g].whiteTime # games[g].whiteTime
           \/ games'[g].blackTime # games[g].blackTime) =>
            /\ games'[g].turn = opp(games[g].turn)
            /\ \E mv \in MoveInputs, answer \in OracleAnswers :
                 /\ Acceptable(g, mv, answer)
                 /\ GameMove(toMove(games[g]), g, mv[1], mv[2], answer)]_vars

\* both sides have moved, each after some time had gone by
C8_Witness ==
  \E g \in DOMAIN games :
    /\ charged[g].white > 0
    /\ charged[g].black > 0
    /\ games[g].timeControl - games[g].whiteTime = charged[g].white
    /\ games[g].timeControl - games[g].blackTime = charged[g].black

\* ------------------------------------------------------------------- C9
\* the sessions connection c takes part in
sessionsOf(c) == {g \in DOMAIN games : games[g].white = c \/ games[g].black = c}

held(game, side) == IF side = "white" THEN game.white ELSE game.black

\* C9: when a connection disconnects, either it takes part in a session, and
\* then one such session (the first of the store) is finalized with reason
\* "Opponent disconnected.", the winner being the side the remaining
\* participant holds; or it takes part in none, and then no session is
\* created or finalized.  Either way it is no longer in the matchmaking queue.
C9_DisconnectForfeitsOrDequeues ==
  [][\A c \in Conns :
       (connected[c] /\ ~connected'[c]) =>
         /\ \A i \in 1..Len(matchmakingQueue') : matchmakingQueue'[i] # c
         /\ nextId' = nextId
         /\ IF sessionsOf(c) = {}
            THEN games' = games /\ overs' = overs
            ELSE \E g \in sessionsOf(c) :
                   /\ \A h \in sessionsOf(c) : g <= h
                   /\ games' = Remove(games, g)
                   /\ Len(overs'[g]) = Len(overs[g]) + 1
                   /\ \A h \in GameIds \ {g} : overs'[h] = overs[h]
                   /\ lastOver(g).reason = "Opponent disconnected."
                   /\ \A side \in Sides :
                        held(games[g], side) \notin {Null, c} =>
                          lastOver(g).winner = side]_vars

\* a participant of the first of two sessions, which had both sides present,
\* has gone and the room has been told who has won
C9_Witness ==
  /\ 2 \in DOMAIN games
  /\ lastEvent[1] # 0
  /\ \E winner \in Sides :
       out = <<toRoom(1, "GAME_OVER",
                      [winner |-> winner, reason |-> "Opponent disconnected."])>>
  /\ \E c \in Conns : ~connected[c]
  /\ \E c \in Conns : connected[c] /\ held(games[2], "white") = c

\* ------------------------------------------------------------------ C10
\* C10: when GAME_FIND brings the queue to two entries, the two are removed
\* and one session is created in which one of them is white and the other
\* black, with the starting position, white to move, both budgets the
\* default time control; each of the two is sent GAME_JOINED with that
\* sessionId and its own side, the sides being complementary; and the
\* deadline timer is armed for white.
C10_PairingCreatesOneSession ==
  [][(Len(matchmakingQueue) = 1 /\ matchmakingQueue' = << >> /\ nextId' = nextId + 1) =>
       LET g == nextId'
           p1 == matchmakingQueue[1]
           p2 == out'[1].sock
           default == DefaultMinutes * MinuteTicks
       IN  /\ DOMAIN games' = DOMAIN games \cup {g}
           /\ g \notin DOMAIN games
           /\ games'[g].board = initialBoard
           /\ games'[g].turn = "white"
           /\ games'[g].whiteTime = default /\ games'[g].blackTime = default
           /\ {games'[g].white, games'[g].black} = {p1, p2}
           /\ games'[g].white # games'[g].black
           /\ Len(out') = 4
           /\ out'[2].sock = p1 /\ out'[2].ev = "GAME_JOINED" /\ out'[2].p.gameId = g
           /\ out'[3].sock = p2 /\ out'[3].ev = "GAME_JOINED" /\ out'[3].p.gameId = g
           /\ held(games'[g], out'[2].p.color) = p1
           /\ held(games'[g], out'[3].p.color) = p2
           /\ out'[2].p.color # out'[3].p.color
           /\ out'[2].p.board = initialBoard /\ out'[3].p.board = initialBoard
           /\ \E t \in pending' :
                /\ t.gameId = g /\ t.color = "white"
                /\ t.deadline = now + default + GraceTicks
                /\ latest'[g] = {t}]_vars

\* ------------------------------------------------------------------ C11
\* why GAME_JOIN of session g by connection c is refused, Null if it is not
joinFailure(c, g) ==
  IF user(c) = Null THEN "Authentication required."
  ELSE IF g \notin DOMAIN games THEN "Game not found."
  ELSE IF games[g].white # Null /\ games[g].black # Null THEN "Game is full."
  ELSE IF c \in {games[g].white, games[g].black} THEN "You have already joined."
  ELSE Null

\* this step sends the one error `message` to c and to nobody else, and
\* leaves the sessions, the queue and the timers as they are
Rejected(c, message) ==
  /\ out' = <<toSocket(c, "GAME_ERROR", [message |-> message])>>
  /\ UNCHANGED <<games, nextId, matchmakingQueue, gameTimeouts, pending, overs>>

\* without a user the payload of GAME_CREATE is not read: one stands for all
anyPayload == CHOOSE payload \in TimeControlPayloads : TRUE

\* C11: GAME_JOIN of a session that does not exist is answered "Game not
\* found.", of one with both sides occupied "Game is full.", by its one
\* occupant "You have already joined."; GAME_CREATE, GAME_JOIN and GAME_FIND
\* of a connection without a user are answered "Authentication required.";
\* each of these errors goes to the sender only and the store, the queue and
\* the timers stay as they are.
C11_JoinAndAuthErrors ==
  [][\A c \in Conns :
       /\ \A g \in GameIds :
            (joinFailure(c, g) # Null /\ GameJoin(c, g)) =>
              Rejected(c, joinFailure(c, g))
       /\ (user(c) = Null /\ GameCreate(c, anyPayload, GameIds)) =>
            Rejected(c, "Authentication required.")
       /\ (user(c) = Null /\ GameFind(c, TRUE, GameIds)) =>
            Rejected(c, "Authentication required.")]_vars

\* a connection has been told that a session whose clock is running is full,
\* while another session waits for its second participant
C11_Witness ==
  \E c \in Conns, g \in DOMAIN games, h \in DOMAIN games :
    /\ out = <<toSocket(c, "GAME_ERROR", [message |-> "Game is full."])>>
    /\ games[g].black # Null
    /\ \E t \in pending : t.gameId = g
    /\ games[h].black = Null

\* ------------------------------------------------------------------ C12
\* C12: a GAME_JOIN that succeeds fills the black side and leaves, as the
\* session's timer, one armed for the side that is to move, with that side's
\* remaining time as its duration, whatever happened to the session before.
C12_JoinArmsSideToMove ==
  [][\A g \in DOMAIN games :
       (games[g].black = Null /\ g \in DOMAIN games' /\ games'[g].black # Null) =>
         \E t \in pending' :
           /\ latest'[g] = {t}
           /\ t.color = games'[g].turn
           /\ t.deadline = now + timeOf(games'[g], games'[g].turn) + GraceTicks]_vars

\* ------------------------------------------------------------------ C13
\* C13: a session with one side occupied has no pending timer, white is to
\* move in it and both budgets are the whole time control.
C13_SingleOccupantIsIdle ==
  \A g \in DOMAIN games :
    games[g].black = Null =>
      /\ \A t \in pending : t.gameId # g
      /\ games[g].turn = "white"
      /\ games[g].whiteTime = games[g].timeControl
      /\ games[g].blackTime = games[g].timeControl

\* ------------------------------------------------------------------ C14
\* session g has been created and is no longer in the store
Evicted(g) == g <= nextId /\ g \notin DOMAIN games

\* C14: a session is in the store exactly until its GAME_OVER is emitted
\* (the step that emits it removes it); from then on a GAME_MOVE or a timer
\* callback for its gameId does nothing and emits nothing, a GAME_JOIN of it
\* is answered "Game not found.", and no step, a disconnect included, brings
\* it back, emits GAME_STATE or GAME_OVER to its room or raises an exception.
C14_EvictedWithGameOver ==
  /\ [](\A g \in GameIds :
          g \in DOMAIN games <=> (g <= nextId /\ overs[g] = << >>))
  /\ [](\A g \in GameIds :
          (Evicted(g) /\ ~fault) =>
            /\ \A c \in Conns, mv \in MoveInputs, answer \in OracleAnswers :
                 moveHandler(Heap, c, g, mv[1], mv[2], answer) = Heap
            /\ \A c \in Conns, color \in Sides :
                 handleTimeout(Heap, c, g, color) = Heap)
  /\ [][\A g \in GameIds :
          Evicted(g) =>
            /\ g \notin DOMAIN games'
            /\ overs'[g] = overs[g]
            /\ fault' = fault
            /\ \A i \in 1..Len(out') : out'[i].room # g
            /\ \A c \in Conns :
                 GameJoin(c, g) => Rejected(c, joinFailure(c, g))]_vars

\* a connection has asked to join a session that has ended, one of whose
\* timers is still to fire, and has been told that there is no such session
C14_Witness ==
  \E c \in Conns, g \in GameIds :
    /\ Evicted(g)
    /\ Len(overs[g]) = 1
    /\ out = <<toSocket(c, "GAME_ERROR", [message |-> "Game not found."])>>
    /\ \E t \in pending : t.gameId = g

\* ------------------------------------------------------------------ C15
\* C15: no timer is pending for a gameId that is not in the store.
C15_NoTimerForEvictedSession ==
  \A t \in pending : t.gameId \in DOMAIN games

\* ------------------------------------------------------------------ C16
\* the queue q without the entries of connection c
without(q, c) == SelectSeq(q, LAMBDA x : x # c)

waiting(q) == {q[i] : i \in 1..Len(q)}

\* this step is the pairing of GAME_FIND
Pairs == Len(matchmakingQueue) = 1 /\ matchmakingQueue' = << >> /\ nextId' = nextId + 1

\* C16: GAME_FIND_CANCEL takes the sender out of the queue and does nothing
\* else: the entries of the others stay, in their order, no session or timer
\* is touched, nothing is emitted, and a second cancel changes nothing more.
\* A connection enters the queue only by its own GAME_FIND and is out of it
\* after its cancel or disconnect, and a pairing places only the sender of
\* the GAME_FIND and a connection that is waiting (and connected) then.
C16_CancelIsIdempotent ==
  /\ [](\A c \in Conns :
          LET once == removeFirst(matchmakingQueue, c)
          IN  /\ once = without(matchmakingQueue, c)
              /\ removeFirst(once, c) = once)
  /\ [](\A c \in waiting(matchmakingQueue) : connected[c])
  /\ [][\A c \in Conns :
          /\ GameFindCancel(c) =>
               /\ matchmakingQueue' = without(matchmakingQueue, c)
               /\ out' = << >>
               /\ UNCHANGED <<games, nextId, gameTimeouts, pending, overs>>
          /\ (connected[c] /\ ~connected'[c]) => c \notin waiting(matchmakingQueue')
          /\ (c \in waiting(matchmakingQueue') \ waiting(matchmakingQueue)) =>
               out' = <<toSocket(c, "GAME_FINDING", [gameId |-> 0])>>]_vars
  /\ [][Pairs =>
          /\ out'[1] = toSocket(out'[1].sock, "GAME_FINDING", [gameId |-> 0])
          /\ {games'[nextId'].white, games'[nextId'].black}
               \subseteq waiting(matchmakingQueue) \cup {out'[1].sock}
          /\ connected[games'[nextId'].white] /\ connected[games'[nextId'].black]]_vars

\* a cancel has just been processed that left the entry of another
\* connection, which waits while a session exists, where it was
C16_Witness ==
  /\ now = 1
  /\ out = << >>
  /\ \A c \in Conns : connected[c]
  /\ 1 \in DOMAIN games
  /\ Len(matchmakingQueue) = 1

\* ------------------------------------------------------------------ C17
\* C17: every session in the store has non-negative whiteTime and blackTime.
C17_BudgetsNonNegative ==
  \A g \in DOMAIN games : games[g].whiteTime >= 0 /\ games[g].blackTime >= 0

\* ------------------------------------------------------------------ C18
\* what side would have left of its budget once the time since the last
\* event is charged to the side to move
remaining(game, side) ==
  timeOf(game, side) - (IF side = game.turn THEN elapsedOf(game) ELSE 0)

timedOut(g, loser) ==
  <<toRoom(g, "GAME_OVER", [winner |-> opp(loser), reason |-> "Timeout"])>>

\* C18: a move of the side to move that passes the oracle, but at whose
\* arrival a budget is at or below zero once the elapsed time is charged, is
\* not applied: no GAME_STATE (no new board or turn) is broadcast, only the
\* GAME_OVER with reason Timeout whose loser is a side at or below zero, and
\* the session leaves the store, the other sessions staying as they are.
C18_TimeoutOnArrival ==
  \A g \in PlayIds \cap DOMAIN games :
    (toMove(games[g]) # Null /\ Live(toMove(games[g]))) =>
      \A mv \in MoveInputs, answer \in OracleAnswers :
        (/\ isValidMove_c(games[g].board, mv[1], games[g].turn = "white", answer)
         /\ ~answer.self
         /\ \E side \in Sides : remaining(games[g], side) <= 0) =>
          LET H == moveHandler(Heap, toMove(games[g]), g, mv[1], mv[2], answer)
          IN  /\ \E loser \in Sides :
                   /\ remaining(games[g], loser) <= 0
                   /\ H.out = timedOut(g, loser)
                   /\ H.overs[g] = Append(overs[g], H.out[1].p)
              /\ ~applied(H)
              /\ H.games = Remove(games, g)
              /\ ~H.fault

\* the side to move has submitted a move after its time had run out, and
\* before the timer armed for it (by the other connection) has fired
C18_Witness ==
  \E g \in GameIds, loser \in Sides :
    /\ Evicted(g)
    /\ out = timedOut(g, loser)
    /\ lastEvent[g] # 0 /\ now > lastEvent[g]
    /\ \E t \in pending : t.gameId = g /\ t.color = loser

\* ------------------------------------------------------------------ C19
\* C19: a move that is accepted leaves, as the session's timer, one that the
\* mover's connection has armed for the other side, the new side to move,
\* with that side's remaining budget as its duration; the side recorded in
\* the timer is the side to move of the GAME_STATE the handler broadcasts
\* and of the session it leaves.
C19_MoveRearmsForNextSide ==
  \A g \in PlayIds \cap DOMAIN games :
    (toMove(games[g]) # Null /\ Live(toMove(games[g]))) =>
      \A mv \in MoveInputs, answer \in OracleAnswers :
        Acceptable(g, mv, answer) =>
          LET c == toMove(games[g])
              H == moveHandler(Heap, c, g, mv[1], mv[2], answer)
              next == opp(games[g].turn)
          IN  \E t \in H.pending :
                /\ H.latest[g] = {t}
                /\ H.gameTimeouts[c][g] = t
                /\ t.gameId = g
                /\ t.color = next
                /\ t.deadline - GraceTicks - now = timeOf(games[g], next)
                /\ t.color = H.out[1].p.turn
                /\ t.deadline - GraceTicks - now = timeOf(H.out[1].p, next)
                /\ g \in DOMAIN H.games =>
                     /\ t.color = H.games[g].turn
                     /\ t.deadline - GraceTicks - now = timeOf(H.games[g], next)

\* black has moved, after some of its time had gone by, and the timer its
\* move has armed is for white, with what white has left
C19_Witness ==
  \E g \in DOMAIN games, t \in pending :
    /\ latest[g] = {t}
    /\ games[g].turn = "white"
    /\ charged[g].black > 0
    /\ lastEvent[g] = now
    /\ Len(out) = 1 /\ out[1].ev = "GAME_STATE"
    /\ t.color = "white"
    /\ t.owner = games[g].black
    /\ t.deadline = now + games[g].whiteTime + GraceTicks

\* ------------------------------------------------------------------ C20
\* C20: no session of the store has a connection that has disconnected as
\* its white or black participant.
C20_NoSessionOfDisconnected ==
  \A c \in Conns : ~connected[c] => sessionsOf(c) = {}

\* ------------------------------------------------------------------ C21
\* C21: no connection has two entries in the matchmaking queue, and no
\* session of the store has one connection as both white and black.
C21_NeverPairedWithItself ==
  /\ \A i, j \in 1..Len(matchmakingQueue) :
       matchmakingQueue[i] = matchmakingQueue[j] => i = j
  /\ \A g \in DOMAIN games : games[g].white # games[g].black

====
